---- MODULE Spec2Model ----
(***************************************************************************)
(* Model of MockService (src/src/MockService.ts): a generator of moving    *)
(* point observations along polylines, read page by page.                  *)
(*                                                                         *)
(* Numbers.  The service computes with IEEE doubles.  The geometries and   *)
(* distStep values enumerated below have integer coordinates, axis-aligned *)
(* segments whose lengths are powers of two, and dyadic distStep, so every *)
(* double operation the code performs on them is exact; the model computes *)
(* the same values as normalised fractions <<numerator, denominator>>.     *)
(* Identifiers are unsigned 32-bit values, kept as two 16-bit words        *)
(* <<high, low>>.  Indices keep the code's 0-based values; sequences are   *)
(* 1-based, so an index i addresses element i + 1.                         *)
(***************************************************************************)
EXTENDS Integers, Sequences, FiniteSets, TLC

\* ------------------------------------------------------------------ bounds
MaxTrackedAssets == 3
MaxPageSize == 3
MaxTicks == 4
\* In SpecLong, enough runs of _updatePositions to pass the 800th.
LongTicks == 801
\* In SpecId, the calls explored from a counter value, and how far below the
\* modulus the second counter value lies.
MaxIdCalls == 60
WrapDistance == 5
\* In SpecAnyOrder, the initialize() calls explored on one service.
MaxInitializations == 2
\* In SpecFair, the runs of _updatePositions explored, and the number of runs
\* within which a track is expected back at the start of a path.
FairTicks == 30
LoopTicks == 26

\* ------------------------------------------------------- program constants
NumCyclesBetweenActiveUpdate == 400

\* ------------------------------------------------------------ fractions
Abs(n) == IF n < 0 THEN -n ELSE n

RECURSIVE GCD(_, _)
GCD(a, b) == IF b = 0 THEN a ELSE GCD(b, a % b)

\* The fraction n / d (d # 0) in lowest terms with a positive denominator.
Frac(n, d) ==
  LET g == GCD(Abs(n), Abs(d))
      s == IF d < 0 THEN -1 ELSE 1
  IN <<(s * n) \div g, (s * d) \div g>>

FromInt(n) == <<n, 1>>
FAdd(a, b) == Frac(a[1] * b[2] + b[1] * a[2], a[2] * b[2])
FMul(a, b) == Frac(a[1] * b[1], a[2] * b[2])
FDiv(a, b) == Frac(a[1] * b[2], a[2] * b[1])
FGeq(a, b) == a[1] * b[2] >= b[1] * a[2]

\* Math.sqrt on the perfect squares the enumerated geometries produce.
Sqrt(n) == CHOOSE r \in 0..n : r * r = n

\* ------------------------------------------------------- 32-bit identifiers
Word == 256 * 256
U32Zero == <<0, 0>>
U32One == <<0, 1>>
\* 0xfffffffe, the modulus of _createId.
IdModulus == <<Word - 1, Word - 2>>
U32Less(a, b) == a[1] < b[1] \/ (a[1] = b[1] /\ a[2] < b[2])
U32Succ(a) == IF a[2] + 1 = Word THEN <<a[1] + 1, 0>> ELSE <<a[1], a[2] + 1>>
U32Pred(a) == IF a[2] = 0 THEN <<a[1] - 1, Word - 1>> ELSE <<a[1], a[2] - 1>>
U32Sub(a, b) ==
  IF a[2] >= b[2] THEN <<a[1] - b[1], a[2] - b[2]>>
  ELSE <<a[1] - b[1] - 1, a[2] + Word - b[2]>>
\* a % m for 0 <= a < 2 * m, the only arguments _createId produces.
U32Mod(a, m) == IF U32Less(a, m) THEN a ELSE U32Sub(a, m)
\* Whether a value fits the unsigned 32-bit range.
IsU32(a) == a[1] \in 0..(Word - 1) /\ a[2] \in 0..(Word - 1)

\* JSON null: what JSON.stringify writes for an array hole or undefined; also
\* the value of a field that was never assigned.
Null == [null |-> TRUE]

Min(a, b) == IF a < b THEN a ELSE b
Max(a, b) == IF a > b THEN a ELSE b

\* ------------------------------------------------------------ the inputs
\* A FeatureSet<Polyline> is [features |-> <<polyline, ...>>]; a polyline is its
\* sequence of paths, a path a sequence of vertices <<x, y>>.
OneCornerPath == << << <<0, 0>>, <<1, 0>>, <<1, 1>> >> >>
OneSegment == << << <<0, 0>>, <<1, 0>> >> >>
OtherSegment == << << <<0, 2>>, <<2, 2>> >> >>
TwoShortPaths == << << <<0, 0>>, <<2, 0>> >>, << <<0, 1>>, <<1, 1>> >> >>
LongThenCorner == << << <<0, 0>>, <<4, 0>> >>, << <<0, 1>>, <<1, 1>>, <<1, 2>> >> >>
UnevenCorner == << << <<0, 0>>, <<4, 0>>, <<4, 1>> >> >>
TwoLongPaths ==
  << << <<0, 0>>, <<1, 0>>, <<1, 1>>, <<2, 1>> >>,
     << <<0, 2>>, <<2, 2>>, <<2, 4>>, <<4, 4>> >> >>

Geometries ==
  { [features |-> <<OneCornerPath>>],
    [features |-> <<OneSegment>>],
    [features |-> <<OneSegment, OtherSegment>>],
    [features |-> <<TwoLongPaths, OneSegment, OtherSegment>>],
    [features |-> <<OneSegment, OtherSegment, TwoLongPaths>>],
    [features |-> <<TwoShortPaths>>],
    [features |-> <<LongThenCorner>>],
    [features |-> <<UnevenCorner>>] }

\* distStep values, as fractions.
DistSteps == { <<1, 2>>, <<1, 4>> }

Configs ==
  [trackedAssets : 1..MaxTrackedAssets, pageSize : 1..MaxPageSize, distStep : DistSteps]

\* Values of Math.random(), in hundredths.
RandomDraws == {4, 90}

\* line 36: Math.atan2(dy, dx) - Math.PI / 2, in quarter turns, for the
\* axis-aligned directions of the enumerated geometries.
Atan2(dy, dx) ==
  CASE dy = 0 /\ dx >= 0 -> 0
    [] dy > 0 /\ dx = 0 -> 1
    [] dy = 0 /\ dx < 0 -> 2
    [] dy < 0 /\ dx = 0 -> -1
getAzimuth(dx, dy) == Atan2(dy, dx) - 1

\* line 37: Math.random() < 0.05 ? 1 : 0
getIsActive(draw) == IF draw < 5 THEN 1 ELSE 0

\* line 143: Math.round(Math.random() * 5); Math.round rounds halves up.
RandomType(draw) == (2 * 5 * draw + 100) \div 200

\* ------------------------------------------------------- _createId (253-258)
\* line 256 without the increment.
CreateIdNext_Stuck(counter) == U32Mod(counter, IdModulus)

\* The counter after one call: (counter + 1) % 0xfffffffe.
CreateIdNext(counter) == U32Mod(U32Succ(counter), IdModulus)
\* The value a call returns: the counter as it was before the call.
CreateIdValue(counter) == counter

\* The counter after k calls.
RECURSIVE CounterAfter(_, _)
CounterAfter(counter, k) ==
  IF k = 0 THEN counter ELSE CounterAfter(CreateIdNext(counter), k - 1)

\* ------------------------------------------------------- vertex counting
RECURSIVE SumLengths(_)
SumLengths(paths) ==
  IF paths = <<>> THEN 0 ELSE Len(Head(paths)) + SumLengths(Tail(paths))

_getNumberOfVertices(polyline) == SumLengths(polyline)

RECURSIVE SumFeatures(_)
SumFeatures(features) ==
  IF features = <<>> THEN 0
  ELSE SumLengths(Head(features)) + SumFeatures(Tail(features))

_sumPolylineVertices(polylines) == SumFeatures(polylines.features)

\* ------------------------------------------------------- allocation (93-161)
\* line 111 without the floor of one track per feature.
NumOfTracksPerFeature_NoMinimum(numOfTrackedAssets, numberOfVertices, vertexSum) ==
  (numOfTrackedAssets * numberOfVertices) \div vertexSum

\* line 111
NumOfTracksPerFeature(numOfTrackedAssets, numberOfVertices, vertexSum) ==
  Max((numOfTrackedAssets * numberOfVertices) \div vertexSum, 1)

\* line 112: Math.floor(0.8 * numberOfVertices / numOfTracksPerFeature)
VertexNumBetweenTracks(numberOfVertices, numOfTracksPerFeature) ==
  (8 * numberOfVertices) \div (10 * numOfTracksPerFeature)

\* lines 284-297; Null is the code's null.
_getNextTrackStart(polyline, vertexNumBetweenTracks, currentPath, currentVertex) ==
  LET path == polyline[currentPath + 1]
  IN IF vertexNumBetweenTracks + currentVertex < Len(path) - 1
     THEN [pathIndex |-> currentPath,
           vertexIndex |-> vertexNumBetweenTracks + currentVertex]
     ELSE IF currentPath + 1 >= Len(polyline) \/ Len(polyline[currentPath + 2]) < 2
          THEN Null
          ELSE [pathIndex |-> currentPath + 1, vertexIndex |-> 0]

\* The for loop of lines 116-156 from iteration numTrack on: the start
\* positions <<path, vertex>> of the tracks it places on one feature.
RECURSIVE PlaceOnFeature(_, _, _, _, _, _)
PlaceOnFeature(polyline, between, perFeature, numTrack, currentPath, currentVertex) ==
  IF numTrack >= perFeature THEN <<>>
  ELSE LET nextStart == _getNextTrackStart(polyline, between, currentPath, currentVertex)
       IN <<[pathIndex |-> currentPath, vertexIndex |-> currentVertex]>> \o
          (IF nextStart = Null THEN <<>>
           ELSE PlaceOnFeature(polyline, between, perFeature, numTrack + 1,
                               nextStart.pathIndex, nextStart.vertexIndex))

\* The tracks one feature receives (lines 109-156).
FeatureStarts(polylines, numOfTrackedAssets, featureIndex) ==
  LET polyline == polylines.features[featureIndex + 1]
      numberOfVertices == _getNumberOfVertices(polyline)
      perFeature == NumOfTracksPerFeature(numOfTrackedAssets, numberOfVertices,
                                          _sumPolylineVertices(polylines))
      between == VertexNumBetweenTracks(numberOfVertices, perFeature)
      starts == PlaceOnFeature(polyline, between, perFeature, 0, 0, 0)
  IN [k \in 1..Len(starts) |->
        [featureIndex |-> featureIndex,
         pathIndex |-> starts[k].pathIndex,
         vertexIndex |-> starts[k].vertexIndex]]

\* line 102: the while loop goes on while trackIndex < numOfTrackedAssets.
MoreTracksWanted(trackIndex, numOfTrackedAssets) == trackIndex < numOfTrackedAssets

\* The while loop of lines 102-160 from (featureIndex, trackIndex) on: the
\* tracks it places, and whether it ended at the diagnostic of line 105.
RECURSIVE PlaceTracks(_, _, _, _)
PlaceTracks(polylines, numOfTrackedAssets, featureIndex, trackIndex) ==
  IF ~MoreTracksWanted(trackIndex, numOfTrackedAssets)
  THEN [tracks |-> <<>>, logged |-> FALSE]
  ELSE IF featureIndex >= Len(polylines.features)
       THEN [tracks |-> <<>>, logged |-> TRUE]
       ELSE LET here == FeatureStarts(polylines, numOfTrackedAssets, featureIndex)
                rest == PlaceTracks(polylines, numOfTrackedAssets, featureIndex + 1,
                                    trackIndex + Len(here))
            IN [tracks |-> here \o rest.tracks, logged |-> rest.logged]

\* Lines 117-127: the segment at (path, vertex) of a polyline.
SegmentDist(x0, y0, x1, y1) == Sqrt((x1 - x0) * (x1 - x0) + (y1 - y0) * (y1 - y0))

\* Lines 129-136: the record pushed for one placed track.
NewTrackInfo(polylines, distStep, t) ==
  LET path == polylines.features[t.featureIndex + 1][t.pathIndex + 1]
      vertex == path[t.vertexIndex + 1]
      vertexNext == path[t.vertexIndex + 2]
      dist == SegmentDist(vertex[1], vertex[2], vertexNext[1], vertexNext[2])
  IN [featureIndex |-> t.featureIndex,
      pathIndex |-> t.pathIndex,
      vertexIndex |-> t.vertexIndex,
      distanceToNextVertex |-> FromInt(dist),
      accumulatedDistance |-> FromInt(0),
      speed |-> FMul(FromInt(dist), distStep)]

\* Lines 138-147 with ++trackIndex for trackIndex++ at line 141.
NewObservation_PreIncrement(polylines, t, id, trackIndex, typeDraw, activeDraw) ==
  LET path == polylines.features[t.featureIndex + 1][t.pathIndex + 1]
      vertex == path[t.vertexIndex + 1]
      vertexNext == path[t.vertexIndex + 2]
  IN [attributes |->
        [OBJECTID |-> id,
         TRACKID |-> trackIndex + 1,
         HEADING |-> getAzimuth(vertexNext[1] - vertex[1], vertexNext[2] - vertex[2]),
         TYPE |-> RandomType(typeDraw),
         ACTIVE |-> getIsActive(activeDraw)],
      geometry |-> [x |-> FromInt(vertex[1]), y |-> FromInt(vertex[2])]]

\* Lines 138-147: the observation pushed for one placed track.
NewObservation(polylines, t, id, trackIndex, typeDraw, activeDraw) ==
  LET path == polylines.features[t.featureIndex + 1][t.pathIndex + 1]
      vertex == path[t.vertexIndex + 1]
      vertexNext == path[t.vertexIndex + 2]
  IN [attributes |->
        [OBJECTID |-> id,
         TRACKID |-> trackIndex,
         HEADING |-> getAzimuth(vertexNext[1] - vertex[1], vertexNext[2] - vertex[2]),
         TYPE |-> RandomType(typeDraw),
         ACTIVE |-> getIsActive(activeDraw)],
      geometry |-> [x |-> FromInt(vertex[1]), y |-> FromInt(vertex[2])]]

\* ------------------------------------------------- _updatePositions (163-239)
\* line 206 testing the distance reached instead of the distance one step ahead.
NeedsNextVertex_Reached(nextDist, speed, distanceToNextVertex) ==
  FGeq(nextDist, distanceToNextVertex)

\* line 206 testing whether the distance reached is a step past the segment.
NeedsNextVertex_Overshoot(nextDist, speed, distanceToNextVertex) ==
  FGeq(nextDist, FAdd(distanceToNextVertex, speed))

\* line 206: test if we need to move to the next vertex.
NeedsNextVertex(nextDist, speed, distanceToNextVertex) ==
  FGeq(FAdd(nextDist, speed), distanceToNextVertex)

\* line 213: path = paths[pathIndex++] reads paths at the index as it was
\* before the increment.
PathAtPostIncrement(paths, pathIndex) == paths[pathIndex + 1]

\* lines 212-216 with the index always advanced, also on the last path.
NextPathIndex_NoWrap(pathIndex, numPaths) == pathIndex + 1

\* lines 212-216 with the index always set back to 0.
NextPathIndex_AlwaysFirst(pathIndex, numPaths) == 0

\* lines 212-216 with the index left as it is.
NextPathIndex_Stay(pathIndex, numPaths) == pathIndex

\* lines 212-216: the path index stored at line 218 when a track has passed
\* the last segment of its path.
NextPathIndex(pathIndex, numPaths) ==
  IF pathIndex < numPaths - 1 THEN pathIndex + 1 ELSE 0

\* Lines 167-233 for one track: its record and observation after a tick in
\* which it receives OBJECTID id; roll is the test of line 196.
UpdateTrack(polylines, info, observation, id, roll, activeDraw) ==
  LET paths == polylines.features[info.featureIndex + 1]
      path == paths[info.pathIndex + 1]
      vertex == path[info.vertexIndex + 1]
      vertexNext == path[info.vertexIndex + 2]
      x0 == vertex[1]
      y0 == vertex[2]
      x1 == vertexNext[1]
      y1 == vertexNext[2]
      nextDist == FAdd(info.accumulatedDistance, info.speed)
      distanceRatio == FDiv(nextDist, info.distanceToNextVertex)
      x == FAdd(FromInt(x0), FMul(FromInt(x1 - x0), distanceRatio))
      y == FAdd(FromInt(y0), FMul(FromInt(y1 - y0), distanceRatio))
      newObservation ==
        [attributes |->
           [observation.attributes EXCEPT
              !.OBJECTID = id,
              !.HEADING = getAzimuth(x1 - x0, y1 - y0),
              !.ACTIVE = IF roll THEN getIsActive(activeDraw) ELSE @],
         geometry |-> [x |-> x, y |-> y]]
      moved == [info EXCEPT !.accumulatedDistance = nextDist]
      vertexIndex1 == info.vertexIndex + 1
      atEnd == vertexIndex1 >= Len(path) - 1
      hasNextPath == info.pathIndex < Len(paths) - 1
      pathIndex2 == IF atEnd THEN NextPathIndex(info.pathIndex, Len(paths))
                    ELSE info.pathIndex
      path2 == IF atEnd /\ hasNextPath THEN PathAtPostIncrement(paths, info.pathIndex)
               ELSE path
      vertexIndex2 == IF atEnd THEN 0 ELSE vertexIndex1
      vertex2 == path2[vertexIndex2 + 1]
      vertexNext2 == path2[vertexIndex2 + 2]
      dist == SegmentDist(vertex2[1], vertex2[2], vertexNext2[1], vertexNext2[2])
      transitioned ==
        [moved EXCEPT !.pathIndex = pathIndex2,
                      !.vertexIndex = vertexIndex2,
                      !.distanceToNextVertex = FromInt(dist),
                      !.accumulatedDistance = FromInt(0)]
  IN [info |-> IF NeedsNextVertex(nextDist, info.speed, info.distanceToNextVertex)
               THEN transitioned ELSE moved,
      observation |-> newObservation]

\* line 196
IsActiveUpdateTick(numCycles) == numCycles = NumCyclesBetweenActiveUpdate

\* lines 236-238 left out: the counter is never reset.
ResetCycles_Never(numCycles) == numCycles

\* lines 236-238
ResetCycles(numCycles) ==
  IF numCycles >= NumCyclesBetweenActiveUpdate THEN 0 ELSE numCycles

\* ------------------------------------------------------- paging (71-91, 241-251)
\* _nextPage with > for >=: one page too many when pageSize divides trackedAssets.
NextPage_Strict(page, trackedAssets, pageSize) ==
  IF (page + 1) * pageSize > trackedAssets THEN 0 ELSE page + 1

\* _nextPage: the value _page takes.
NextPage(page, trackedAssets, pageSize) ==
  IF (page + 1) * pageSize >= trackedAssets THEN 0 ELSE page + 1

\* line 78
IsCycleStart(start) == start = 0

\* Lines 76 and 82-85, then JSON.stringify: an Array(end - start) whose elements
\* start..end-1 are assigned from lastObservations.  Assigning past the length
\* grows the array; holes and undefined elements are written as null.
OutFeatures(observations, start, end) ==
  LET length == IF start < end THEN Max(end - start, end) ELSE end - start
  IN [j \in 1..length |->
        IF j - 1 >= start /\ j - 1 < end /\ j <= Len(observations)
        THEN observations[j] ELSE Null]

\* ------------------------------------------------------------------ state
VARIABLES
  config,            \* _config
  idCounter,         \* _idCounter
  page,              \* _page
  lastObservations,  \* _lastObservations
  trackInfos,        \* _trackInfos, one record per six array slots
  polylines,         \* _polylines, Null while undefined
  numCyclesSinceLastActiveUpdate,
  result,            \* the value of the latest next(), parsed; Null before any
  served,            \* [page, start, end] of the latest next(); Null before any
  calls,             \* number of next() calls so far
  ticks,             \* number of _updatePositions runs so far
  rolled,            \* indices whose ACTIVE the latest _updatePositions assigned
  logged,            \* whether the latest _initialize wrote its diagnostic
  initializations,   \* number of initialize() calls so far
  lastIds,           \* the values of the two latest _createId calls, oldest first
  idsIssued          \* number of _createId calls so far, as a 32-bit pair

vars == <<config, idCounter, page, lastObservations, trackInfos, polylines,
          numCyclesSinceLastActiveUpdate, result, served, calls, ticks, rolled,
          logged, initializations, lastIds, idsIssued>>

\* The values n consecutive _createId calls return, starting at counter.
IssuedIds(counter, n) ==
  [k \in 1..n |-> CreateIdValue(CounterAfter(counter, k - 1))]

LastTwo(s) == IF Len(s) <= 2 THEN s ELSE SubSeq(s, Len(s) - 1, Len(s))

RECURSIVE U32Plus(_, _)
U32Plus(a, k) == IF k = 0 THEN a ELSE U32Plus(U32Succ(a), k - 1)

\* The bookkeeping of n further _createId calls.
IssueIds(n) ==
  /\ idCounter' = CounterAfter(idCounter, n)
  /\ lastIds' = LastTwo(lastIds \o IssuedIds(idCounter, n))
  /\ idsIssued' = U32Plus(idsIssued, n)

\* Lines 46-64: the service after construction, its counter at idStart.
Constructed(idStart) ==
  /\ config \in Configs
  /\ idCounter = idStart
  /\ page = 0
  /\ lastObservations = <<>>
  /\ trackInfos = <<>>
  /\ polylines = Null
  /\ numCyclesSinceLastActiveUpdate = 0
  /\ result = Null
  /\ served = Null
  /\ calls = 0
  /\ ticks = 0
  /\ rolled = {}
  /\ logged = FALSE
  /\ initializations = 0

Init ==
  /\ Constructed(U32One)
  /\ lastIds = <<>>
  /\ idsIssued = U32Zero

\* initialize(input), lines 66-69 and 93-161.
DoInitialize(input) ==
  LET placed == PlaceTracks(input, config.trackedAssets, 0, 0)
      n == Len(placed.tracks)
      ids == IssuedIds(idCounter, n)
  IN \E typeDraws \in [1..n -> RandomDraws], activeDraws \in [1..n -> RandomDraws] :
       /\ polylines' = input
       /\ trackInfos' = trackInfos \o
            [k \in 1..n |-> NewTrackInfo(input, config.distStep, placed.tracks[k])]
       /\ lastObservations' = lastObservations \o
            [k \in 1..n |->
               NewObservation(input, placed.tracks[k], ids[k], k - 1,
                              typeDraws[k], activeDraws[k])]
       /\ IssueIds(n)
       /\ logged' = placed.logged
       /\ initializations' = initializations + 1
       /\ UNCHANGED <<config, page, numCyclesSinceLastActiveUpdate, result, served,
                      calls, ticks, rolled>>

Initialize ==
  /\ polylines = Null
  /\ \E input \in Geometries : DoInitialize(input)

\* _updatePositions applied to every track in index order (163-239): the
\* tracks' records and observations, with the ACTIVE draws used on a 400th run.
UpdatedTracks(numCycles, activeDraws) ==
  LET ids == IssuedIds(idCounter, Len(trackInfos))
  IN [k \in 1..Len(trackInfos) |->
        UpdateTrack(polylines, trackInfos[k], lastObservations[k], ids[k],
                    IsActiveUpdateTick(numCycles), activeDraws[k])]

\* next(), lines 71-91, with _nextPage and, on the first page, _updatePositions;
\* at most tickBound runs of _updatePositions are explored.
DoNext(tickBound) ==
  LET pageSize == config.pageSize
      trackedAssets == config.trackedAssets
      start == page * pageSize
      end == Min(start + pageSize, trackedAssets)
      n == Len(trackInfos)
      numCycles == numCyclesSinceLastActiveUpdate + 1
  IN /\ page' = NextPage(page, trackedAssets, pageSize)
     /\ calls' = calls + 1
     /\ served' = [page |-> page, start |-> start, end |-> end]
     /\ IF IsCycleStart(start)
        THEN /\ ticks < tickBound
             /\ \E activeDraws \in
                  (IF IsActiveUpdateTick(numCycles) THEN [1..n -> RandomDraws]
                   ELSE {[k \in 1..n |-> 90]}) :
                  LET updated == UpdatedTracks(numCycles, activeDraws)
                  IN /\ trackInfos' = [k \in 1..n |-> updated[k].info]
                     /\ lastObservations' = [k \in 1..n |-> updated[k].observation]
                     /\ result' = [type |-> "featureResult",
                                   features |-> OutFeatures(lastObservations', start, end)]
             /\ IssueIds(n)
             /\ numCyclesSinceLastActiveUpdate' = ResetCycles(numCycles)
             /\ rolled' = IF IsActiveUpdateTick(numCycles) THEN 0..(n - 1) ELSE {}
             /\ ticks' = ticks + 1
        ELSE /\ result' = [type |-> "featureResult",
                           features |-> OutFeatures(lastObservations, start, end)]
             /\ UNCHANGED <<idCounter, lastIds, idsIssued, trackInfos,
                            lastObservations, numCyclesSinceLastActiveUpdate, rolled,
                            ticks>>
     /\ UNCHANGED <<config, polylines, logged, initializations>>

NextCall ==
  /\ polylines # Null
  /\ DoNext(MaxTicks)

Next == Initialize \/ NextCall

Spec == Init /\ [][Next]_vars

\* --------------------------------------------------------- _createId alone
\* A counter value WrapDistance calls before the counter reaches the modulus.
WrapStart == U32Sub(IdModulus, <<0, WrapDistance>>)

\* The service whose _createId has run U32Pred(idStart) times, none of them
\* wrapping: the counter is idStart, and the latest calls returned the values
\* just below it.
InitId ==
  \E idStart \in {U32One, WrapStart} :
     /\ Constructed(idStart)
     /\ idsIssued = U32Pred(idStart)
     /\ lastIds = IF idStart = U32One THEN <<>>
                  ELSE <<U32Pred(U32Pred(idStart)), U32Pred(idStart)>>

\* One call of _createId (253-258), explored while the counter is within
\* MaxIdCalls of 0 or at most WrapDistance below the modulus.
CreateIdCall ==
  /\ U32Less(idCounter, <<0, MaxIdCalls>>) \/ ~U32Less(idCounter, WrapStart)
  /\ IssueIds(1)
  /\ UNCHANGED <<config, page, lastObservations, trackInfos, polylines,
                 numCyclesSinceLastActiveUpdate, result, served, calls, ticks,
                 rolled, logged, initializations>>

NextId == CreateIdCall

SpecId == InitId /\ [][NextId]_vars

\* ------------------------------------------------------------- long runs
\* Few tracks on two small inputs, followed for LongTicks runs of
\* _updatePositions.
LongGeometries == { [features |-> <<OneCornerPath>>], [features |-> <<TwoShortPaths>>] }

InitLong ==
  /\ Init
  /\ config.trackedAssets <= 2
  /\ config.pageSize <= 2
  /\ config.distStep = <<1, 4>>

InitializeLong ==
  /\ polylines = Null
  /\ \E input \in LongGeometries : DoInitialize(input)

NextCallLong ==
  /\ polylines # Null
  /\ DoNext(LongTicks)

NextLong == InitializeLong \/ NextCallLong

SpecLong == InitLong /\ [][NextLong]_vars

\* ------------------------------------------------- calls in any order
\* The service used without regard to the order of its calls: next() also
\* before initialize(), and initialize() again on a service that has tracks.
\* _updatePositions reads the records of every earlier initialize() against
\* the latest input (line 175), so the inputs enumerated here have one shape:
\* one feature of one three-vertex path.
WideCorner == << << <<0, 0>>, <<2, 0>>, <<2, 2>> >> >>

AnyOrderGeometries == { [features |-> <<OneCornerPath>>], [features |-> <<WideCorner>>] }

InitAnyOrder ==
  /\ Init
  /\ config.trackedAssets <= 2
  /\ config.pageSize <= 2
  /\ config.distStep = <<1, 2>>

\* initialize(input) on a service in any state.
InitializeAnyTime ==
  /\ initializations < MaxInitializations
  /\ \E input \in AnyOrderGeometries : DoInitialize(input)

\* next() on a service in any state.
NextCallAnyTime == DoNext(MaxTicks)

NextAnyOrder == InitializeAnyTime \/ NextCallAnyTime

SpecAnyOrder == InitAnyOrder /\ [][NextAnyOrder]_vars

\* ------------------------------------------------------ repeated calls
\* A caller that keeps calling next(): few tracks on inputs of one and of two
\* paths, followed for FairTicks runs of _updatePositions; a call that can be
\* made is eventually made.
FairGeometries ==
  { [features |-> <<OneCornerPath>>],
    [features |-> <<TwoShortPaths>>],
    [features |-> <<LongThenCorner>>] }

InitFair ==
  /\ Init
  /\ config.trackedAssets <= 2
  /\ config.pageSize <= 2

InitializeFair ==
  /\ polylines = Null
  /\ \E input \in FairGeometries : DoInitialize(input)

NextCallFair ==
  /\ polylines # Null
  /\ DoNext(FairTicks)

NextFair == InitializeFair \/ NextCallFair

\* A next() call is made: NextCallFair seen through the call counter, which
\* every next() and no other step increases (line 71 onwards has no other
\* condition than the bound on the runs explored).
CallMade ==
  /\ polylines # Null
  /\ IsCycleStart(page * config.pageSize) => ticks < FairTicks
  /\ calls' = calls + 1

SpecFair == InitFair /\ [][NextFair]_vars /\ WF_calls(CallMade)

\* ------------------------------------------------------------- properties
NumTracks == Len(trackInfos)
Initialized == polylines # Null

\* The requests of one cycle: ceil(trackedAssets / pageSize).
PagesPerCycle == (config.trackedAssets + config.pageSize - 1) \div config.pageSize

\* C1: with trackCount the configured trackedAssets, _updatePositions runs on
\* the first of every PagesPerCycle consecutive next() calls and on no other,
\* and a call that is not the first of its cycle changes no observation and
\* no track record.
C1_TickOncePerCycle ==
  [][calls' = calls + 1 =>
       /\ ticks' = ticks + (IF calls % PagesPerCycle = 0 THEN 1 ELSE 0)
       /\ calls % PagesPerCycle # 0 =>
            UNCHANGED <<lastObservations, trackInfos>>]_vars

\* A second cycle of three pages has begun: four calls, two ticks.
C1_Witness == PagesPerCycle = 3 /\ calls = 4 /\ ticks = 2

\* C2: where initialize placed exactly trackedAssets tracks (so that the
\* claim's trackCount is unambiguous), the features of every next() are
\* exactly Observations[start:end]: end - start elements, the k-th being
\* Observation[start + k], none of them null.
C2_PageIsSlice ==
  (served # Null /\ NumTracks = config.trackedAssets) =>
     LET start == served.page * config.pageSize
         end == Min(start + config.pageSize, config.trackedAssets)
     IN /\ Len(result.features) = end - start
        /\ \A k \in 1..Len(result.features) :
             /\ result.features[k] # Null
             /\ start + k <= Len(lastObservations)
             /\ result.features[k] = lastObservations[start + k]

\* C3: the pager works on the tracks initialize placed: no page refers to an
\* index >= the number placed, and the pages of a cycle (consecutive from
\* index 0) end exactly at that number, so each observation is in one page.
C3_PagerUsesPlacedTracks ==
  served # Null =>
     /\ served.end <= NumTracks
     /\ page = 0 => served.end = NumTracks

\* C4: initialize produces as many observations as track records, never more
\* than trackedAssets, and fewer only when the features ran out (line 105).
C4_ExactlyTOrExhausted ==
  Initialized =>
     /\ Len(lastObservations) = NumTracks
     /\ NumTracks <= config.trackedAssets
     /\ NumTracks < config.trackedAssets => logged

\* Allocation, read off the track records (a tick never changes featureIndex).
NumFeatures == Len(polylines.features)
PlacedOn(f) == Cardinality({k \in 1..NumTracks : trackInfos[k].featureIndex = f})
PlacedBefore(f) == Cardinality({k \in 1..NumTracks : trackInfos[k].featureIndex < f})
VerticesOf(f) == _getNumberOfVertices(polylines.features[f + 1])
\* max(1, floor(T * vertexCount(f) / totalVertexCount))
ProportionalShare(f) ==
  LET share == (config.trackedAssets * VerticesOf(f)) \div _sumPolylineVertices(polylines)
  IN IF share < 1 THEN 1 ELSE share
SpacingOf(f) == (8 * VerticesOf(f)) \div (10 * ProportionalShare(f))

\* The start of the k-th track (k >= 1) placed on a polyline with a spacing.
RECURSIVE WalkStart(_, _, _)
WalkStart(polyline, between, k) ==
  IF k = 1 THEN [pathIndex |-> 0, vertexIndex |-> 0]
  ELSE LET before == WalkStart(polyline, between, k - 1)
       IN _getNextTrackStart(polyline, between, before.pathIndex, before.vertexIndex)

\* The feature has no start position after that of its k-th track.
PathsRunOutAfter(f, k) ==
  LET polyline == polylines.features[f + 1]
      last == WalkStart(polyline, SpacingOf(f), k)
  IN _getNextTrackStart(polyline, SpacingOf(f), last.pathIndex, last.vertexIndex) = Null

\* C5 as stated: unless the overall count fell short of trackedAssets, every
\* feature holds max(1, floor(T * vertexCount(f) / totalVertexCount)) tracks.
C5_Original ==
  (Initialized /\ NumTracks >= config.trackedAssets) =>
     \A f \in 0..(NumFeatures - 1) : PlacedOn(f) = ProportionalShare(f)

\* C5 amended: a feature reached while fewer than trackedAssets tracks are
\* placed holds max(1, floor(T * vertexCount(f) / totalVertexCount)) tracks, or
\* fewer (at least one) when its paths run out first; a feature reached after
\* trackedAssets tracks are placed holds none.
C5_ShareOfReachedFeatures ==
  Initialized =>
     \A f \in 0..(NumFeatures - 1) :
        IF PlacedBefore(f) >= config.trackedAssets
        THEN PlacedOn(f) = 0
        ELSE \/ PlacedOn(f) = ProportionalShare(f)
             \/ /\ PlacedOn(f) >= 1
                /\ PlacedOn(f) < ProportionalShare(f)
                /\ PathsRunOutAfter(f, PlacedOn(f))

\* One feature holds its share of two tracks and a later one is never reached.
C5_Witness ==
  /\ Initialized
  /\ \E f \in 0..(NumFeatures - 1) : PlacedOn(f) = 2 /\ ProportionalShare(f) = 2
  /\ \E f \in 0..(NumFeatures - 1) :
       PlacedBefore(f) >= config.trackedAssets /\ PlacedOn(f) = 0

\* C6: right after initialize, of two tracks placed consecutively on one
\* feature the later starts at a strictly later (pathIndex, vertexIndex).
C6_StrictlyLaterStarts ==
  (Initialized /\ ticks = 0) =>
     \A k \in 1..(NumTracks - 1) :
        trackInfos[k].featureIndex = trackInfos[k + 1].featureIndex =>
           \/ trackInfos[k].pathIndex < trackInfos[k + 1].pathIndex
           \/ /\ trackInfos[k].pathIndex = trackInfos[k + 1].pathIndex
              /\ trackInfos[k].vertexIndex < trackInfos[k + 1].vertexIndex

\* The configuration of the example: one path [(0,0),(1,0),(1,1)], one
\* track, distStep 0.5.
ExampleRun ==
  /\ polylines = [features |-> <<OneCornerPath>>]
  /\ config.trackedAssets = 1
  /\ config.distStep = <<1, 2>>
  /\ NumTracks = 1

ExamplePosition == <<lastObservations[1].geometry.x, lastObservations[1].geometry.y>>
ExampleSegment == <<trackInfos[1].pathIndex, trackInfos[1].vertexIndex>>

\* C10 as stated: the first tick reports (0.5, 0) and leaves the track on
\* segment 0; the second reports (1, 0) and moves it to segment 1 with
\* accumulatedDistance 0.
C10_Original ==
  ExampleRun =>
     /\ ticks = 1 => /\ ExamplePosition = <<Frac(1, 2), FromInt(0)>>
                     /\ ExampleSegment = <<0, 0>>
     /\ ticks = 2 => /\ ExamplePosition = <<FromInt(1), FromInt(0)>>
                     /\ ExampleSegment = <<0, 1>>
                     /\ trackInfos[1].accumulatedDistance = FromInt(0)

\* C10 amended: the first tick reports (0.5, 0) and already moves the track
\* to segment [(1,0),(1,1)] with accumulatedDistance 0; the second tick
\* reports (1, 0.5) and wraps the track back to segment [(0,0),(1,0)], again
\* with accumulatedDistance 0.
C10_TransitionOnFirstTick ==
  ExampleRun =>
     /\ ticks = 1 => /\ ExamplePosition = <<Frac(1, 2), FromInt(0)>>
                     /\ ExampleSegment = <<0, 1>>
                     /\ trackInfos[1].accumulatedDistance = FromInt(0)
     /\ ticks = 2 => /\ ExamplePosition = <<FromInt(1), Frac(1, 2)>>
                     /\ ExampleSegment = <<0, 0>>
                     /\ trackInfos[1].accumulatedDistance = FromInt(0)

\* The example after its second tick.
C10_Witness == ExampleRun /\ ticks = 2


\* C7: _createId returns 1 on its first call, then the previous value plus 1
\* until it wraps; it never returns 0 and every value fits 32 bits.
C7_IdsFromOneNeverZero ==
  /\ \A k \in 1..Len(lastIds) : lastIds[k] # U32Zero /\ IsU32(lastIds[k])
  /\ idsIssued = U32One => lastIds = <<U32One>>
  /\ Len(lastIds) = 2 =>
       lastIds[2] = U32Succ(lastIds[1]) \/ U32Less(lastIds[2], lastIds[1])

ObjectIds(observations) ==
  [k \in 1..Len(observations) |-> observations[k].attributes.OBJECTID]

\* C8: a tick gives every track an OBJECTID different from the one it held.
C8_FreshObjectIds ==
  [][ticks' = ticks + 1 =>
       \A k \in 1..NumTracks :
          ObjectIds(lastObservations')[k] # ObjectIds(lastObservations)[k]]_vars

\* Three tracks after their second tick.
C8_Witness == NumTracks = 3 /\ ticks = 2

ActiveFlags(observations) ==
  [k \in 1..Len(observations) |-> observations[k].attributes.ACTIVE]

\* C9: with ticks counted from 1 after initialize, a tick whose number is
\* not a multiple of 400 changes no ACTIVE flag and re-rolls none, a tick
\* whose number is a multiple of 400 re-rolls every track's flag, the counter
\* is the tick number modulo 400 after every tick (0 after each 400th), and
\* a next() without a tick changes no flag.
C9_ActiveEvery400 ==
  [][Initialized =>
       /\ ticks' = ticks + 1 =>
            /\ ticks' % 400 # 0 =>
                 /\ ActiveFlags(lastObservations') = ActiveFlags(lastObservations)
                 /\ rolled' = {}
            /\ ticks' % 400 = 0 => rolled' = 0..(NumTracks - 1)
            /\ numCyclesSinceLastActiveUpdate' = ticks' % 400
       /\ ticks' = ticks =>
            ActiveFlags(lastObservations') = ActiveFlags(lastObservations)
       /\ numCyclesSinceLastActiveUpdate' \in 0..399]_vars

\* Two tracks right after tick 800, both flags re-rolled to 1.
C9_Witness ==
  /\ ticks = 800
  /\ NumTracks = 2
  /\ rolled = {0, 1}
  /\ ActiveFlags(lastObservations) = <<1, 1>>
  /\ numCyclesSinceLastActiveUpdate = 0

\* ------------------------------------------------------- tracks over ticks
\* The paths of the feature a record names, and the path it names.
PathsOf(info) == polylines.features[info.featureIndex + 1]
PathOf(info) == PathsOf(info)[info.pathIndex + 1]

\* A tick has just run: the step is one _updatePositions.
IsTick == ticks' = ticks + 1

\* Whether the tick about to run takes the record to another segment, and
\* whether that takes it past the last segment of its path.
LeavesSegment(info) ==
  FGeq(FAdd(FAdd(info.accumulatedDistance, info.speed), info.speed),
       info.distanceToNextVertex)
LeavesPath(info) ==
  LeavesSegment(info) /\ info.vertexIndex + 1 >= Len(PathOf(info)) - 1

\* C11: a tick that takes a track past the last segment of its path stores
\* (pathIndex + 1, 0) when the feature has a further path and (0, 0)
\* otherwise, and no tick changes a track's featureIndex.
C11_EndOfPathIndices ==
  [][IsTick =>
       \A k \in 1..NumTracks :
          LET info == trackInfos[k]
              after == trackInfos'[k]
          IN /\ after.featureIndex = info.featureIndex
             /\ LeavesPath(info) =>
                  <<after.pathIndex, after.vertexIndex>> =
                    IF info.pathIndex < Len(PathsOf(info)) - 1
                    THEN <<info.pathIndex + 1, 0>>
                    ELSE <<0, 0>>]_vars

\* The one track on TwoShortPaths went to path 1 in the first tick and is back
\* on path 0 after the second.
C11_Witness ==
  /\ polylines = [features |-> <<TwoShortPaths>>]
  /\ config.distStep = <<1, 2>>
  /\ NumTracks = 1
  /\ ticks = 2
  /\ <<trackInfos[1].pathIndex, trackInfos[1].vertexIndex>> = <<0, 0>>

\* C12: next() called before any initialize() returns no page result: the
\* call ends in an error, so no value of next() exists until initialize()
\* has run.
C12_NoPageBeforeInitialize == initializations = 0 => result = Null

\* The tracks a new service with the same configuration places on the
\* latest input.
FreshTracks == PlaceTracks(polylines, config.trackedAssets, 0, 0).tracks

\* C13: whenever initialize() has run, also a second time, the records and
\* observations are those of the latest input alone: as many as a new service
\* places on it, with TRACKIDs 0, 1, ... in order.
C13_RebuiltFromScratch ==
  Initialized =>
     /\ NumTracks = Len(FreshTracks)
     /\ Len(lastObservations) = Len(FreshTracks)
     /\ \A k \in 1..Len(lastObservations) :
          lastObservations[k].attributes.TRACKID = k - 1

\* The Euclidean length of the segment a record names: between vertices
\* vertexIndex and vertexIndex + 1 of path pathIndex of feature featureIndex.
NamedSegmentLength(info) ==
  LET vertex == PathOf(info)[info.vertexIndex + 1]
      vertexNext == PathOf(info)[info.vertexIndex + 2]
  IN FromInt(SegmentDist(vertex[1], vertex[2], vertexNext[1], vertexNext[2]))

\* C14: after initialize() and after every tick, each track's speed is the
\* length of the segment it is on times distStep.
C14_SpeedOfCurrentSegment ==
  \A k \in 1..NumTracks :
     trackInfos[k].speed = FMul(NamedSegmentLength(trackInfos[k]), config.distStep)

\* C15: after initialize() and after every tick, each track's stored
\* distanceToNextVertex is the length of the segment its stored indices name.
C15_StoredLengthOfNamedSegment ==
  \A k \in 1..NumTracks :
     trackInfos[k].distanceToNextVertex = NamedSegmentLength(trackInfos[k])

\* C16: after initialize() and after every tick, each record's indices are in
\* range: featureIndex below the number of features, pathIndex below the
\* number of paths of that feature, vertexIndex at most the path's length - 2.
C16_IndicesInBounds ==
  \A k \in 1..NumTracks :
     LET info == trackInfos[k]
     IN /\ info.featureIndex \in 0..(Len(polylines.features) - 1)
        /\ info.pathIndex \in 0..(Len(PathsOf(info)) - 1)
        /\ info.vertexIndex \in 0..(Len(PathOf(info)) - 2)

\* After two ticks or more, a track is on the last segment of the last path
\* of a feature with several paths, on a path with several segments.
C16_Witness ==
  /\ ticks >= 2
  /\ \E k \in 1..NumTracks :
        /\ Len(PathsOf(trackInfos[k])) > 1
        /\ Len(PathOf(trackInfos[k])) > 2
        /\ trackInfos[k].pathIndex = Len(PathsOf(trackInfos[k])) - 1
        /\ trackInfos[k].vertexIndex = Len(PathOf(trackInfos[k])) - 2

\* C17: after initialize() and after every tick, each track's
\* accumulatedDistance is at least 0 and below its stored distanceToNextVertex,
\* and a tick that takes a track to another segment leaves it at 0.
C17_AccumulatedBelowLength ==
  /\ [](\A k \in 1..NumTracks :
          /\ FGeq(trackInfos[k].accumulatedDistance, FromInt(0))
          /\ ~FGeq(trackInfos[k].accumulatedDistance,
                   trackInfos[k].distanceToNextVertex))
  /\ [][IsTick =>
          \A k \in 1..NumTracks :
             LeavesSegment(trackInfos[k]) =>
               trackInfos'[k].accumulatedDistance = FromInt(0)]_vars

\* With distStep 1/4, the third tick has taken a track from segment 0 to
\* segment 1 of its path, after two ticks within segment 0.
C17_Witness ==
  /\ config.distStep = <<1, 4>>
  /\ ticks = 3
  /\ \E k \in 1..NumTracks :
        /\ trackInfos[k].vertexIndex = 1
        /\ trackInfos[k].accumulatedDistance = FromInt(0)

\* C18: the records and observations are equal in number, observation i has
\* TRACKID i, and a tick changes neither their number nor any track's
\* TRACKID, TYPE or featureIndex.
C18_AlignedAndFixed ==
  /\ [](/\ Len(trackInfos) = Len(lastObservations)
        /\ \A k \in 1..Len(lastObservations) :
             lastObservations[k].attributes.TRACKID = k - 1)
  /\ [][IsTick =>
          /\ Len(trackInfos') = Len(trackInfos)
          /\ Len(lastObservations') = Len(lastObservations)
          /\ \A k \in 1..NumTracks :
               /\ lastObservations'[k].attributes.TRACKID =
                    lastObservations[k].attributes.TRACKID
               /\ lastObservations'[k].attributes.TYPE =
                    lastObservations[k].attributes.TYPE
               /\ trackInfos'[k].featureIndex = trackInfos[k].featureIndex]_vars

\* Two tracks, three ticks, and the latest call served a page after the first.
C18_Witness == NumTracks = 2 /\ ticks = 3 /\ served # Null /\ served.page > 0

\* C19: the ratio (accumulatedDistance + speed) / distanceToNextVertex a tick
\* computes for a track is above 0 and at most 1.
C19_RatioWithinSegment ==
  [][IsTick =>
       \A k \in 1..NumTracks :
          LET info == trackInfos[k]
              distanceRatio == FDiv(FAdd(info.accumulatedDistance, info.speed),
                                    info.distanceToNextVertex)
          IN /\ ~FGeq(FromInt(0), distanceRatio)
             /\ FGeq(FromInt(1), distanceRatio)]_vars

\* Track k exists on a feature that has a path p; track k has just entered
\* path p at its first vertex.
HasPath(k, p) == k <= NumTracks /\ p < Len(PathsOf(trackInfos[k]))
AtPathStart(k, p) ==
  /\ k <= NumTracks
  /\ trackInfos[k].pathIndex = p
  /\ trackInfos[k].vertexIndex = 0
  /\ trackInfos[k].accumulatedDistance = FromInt(0)

\* C20: when next() keeps being called, every track keeps going round its
\* feature: from every state with at least LoopTicks ticks still to be
\* explored, each track is later taken by a transition to vertex 0 of each
\* path of its feature, path 0 among them (the enumerated features have at
\* most two paths).
C20_KeepsMoving ==
  \A k \in 1..MaxTrackedAssets, p \in 0..1, t \in 0..(FairTicks - LoopTicks) :
     (ticks = t /\ HasPath(k, p)) ~> (ticks > t /\ AtPathStart(k, p))

\* With distStep 1/4 the one track on LongThenCorner is back at the start of
\* path 0 after seven ticks, having gone through both segments of path 1.
C20_Witness ==
  /\ polylines = [features |-> <<LongThenCorner>>]
  /\ config.distStep = <<1, 4>>
  /\ NumTracks = 1
  /\ ticks = 7
  /\ AtPathStart(1, 0)

====
